---- MODULE Spec2Model ----
(***************************************************************************)
(* Contact book of Andruleek/hw_08.  The repository holds two console      *)
(* programs over the same classes:                                         *)
(*   src/1.py    the "assistant bot" (one line per command), suffix _1     *)
(*   src/main.py the menu program (one prompt per input), suffix _main     *)
(* A Python str is a TLA+ string; its i-th character is SubSeq(s, i, i).   *)
(* A call that may raise returns a record whose field exc names the        *)
(* exception class ("" when the call returned).                            *)
(***************************************************************************)
EXTENDS Integers, Sequences, FiniteSets, TLC

VARIABLES variant, pc, file, data, event

vars == <<variant, pc, file, data, event>>

(***************************************************************************)
(* Bounds of the model.                                                    *)
(***************************************************************************)
\* Most phones the registry holds in all, over its records.
MaxPhones == 3
\* Number of consecutive days tried as "today" from each anchor date.
TodaySpan == 2

(***************************************************************************)
(* The birthdays the model types.                                          *)
(***************************************************************************)
\* At the registry commands of Spec.
FewBirthdays == {"15.06.1990", "31.02.2024"}

\* Under SpecBirthdays: around 10 June, a leap day, a new year's day, a date
\* that does not exist and one not padded.
BirthdayInputs ==
    {"09.06.1980", "10.06.1985", "15.06.1990", "16.06.2001", "17.06.1999",
     "18.06.1970", "29.02.2000", "01.01.1990", "31.02.2024", "1.3.1991"}

(***************************************************************************)
(* Python str methods.                                                     *)
(***************************************************************************)
Char(s, i) == SubSeq(s, i, i)

DecimalDigits == "0123456789"

UpperCase == "ABCDEFGHIJKLMNOPQRSTUVWXYZ"

LowerCase == "abcdefghijklmnopqrstuvwxyz"

WhiteSpace == {" "}

IndexIn(c, alphabet) ==
    IF \E i \in 1..Len(alphabet) : Char(alphabet, i) = c
    THEN CHOOSE i \in 1..Len(alphabet) : Char(alphabet, i) = c
    ELSE 0

Chars(alphabet) == {Char(alphabet, i) : i \in 1..Len(alphabet)}

DigitChars == Chars(DecimalDigits)

\* The lower-case letter of each upper-case one.
LowerOf == [c \in Chars(UpperCase) |-> Char(LowerCase, IndexIn(c, UpperCase))]

\* str.isdigit(): non-empty and every character a digit.
isdigit(s) == Len(s) > 0 /\ \A i \in 1..Len(s) : Char(s, i) \in DigitChars

RECURSIVE lower(_)
lower(s) ==
    IF s = "" THEN ""
    ELSE LET c == Char(s, 1)
         IN (IF c \in DOMAIN LowerOf THEN LowerOf[c] ELSE c) \o lower(Tail(s))

RECURSIVE lstrip(_)
lstrip(s) ==
    IF s # "" /\ Char(s, 1) \in WhiteSpace THEN lstrip(Tail(s)) ELSE s

RECURSIVE rstrip(_)
rstrip(s) ==
    IF s # "" /\ Char(s, Len(s)) \in WhiteSpace
    THEN rstrip(SubSeq(s, 1, Len(s) - 1))
    ELSE s

strip(s) == rstrip(lstrip(s))

\* Length of the longest prefix of s without white space.
RECURSIVE WordLen(_)
WordLen(s) ==
    IF s = "" \/ Char(s, 1) \in WhiteSpace THEN 0 ELSE 1 + WordLen(Tail(s))

\* re.findall(r'\S+', s): the maximal runs of non-space characters, in order.
RECURSIVE findall_words(_)
findall_words(s) ==
    LET t == lstrip(s)
        n == WordLen(t)
    IN IF t = "" THEN <<>>
       ELSE <<SubSeq(t, 1, n)>> \o findall_words(SubSeq(t, n + 1, Len(t)))

\* sep.join(parts)
RECURSIVE join(_, _)
join(sep, parts) ==
    IF parts = <<>> THEN ""
    ELSE IF Len(parts) = 1 THEN parts[1]
    ELSE parts[1] \o sep \o join(sep, Tail(parts))

\* The value of each decimal digit.
DigitValue == [c \in DigitChars |-> IndexIn(c, DecimalDigits) - 1]

\* The decimal value of a string of digits.
RECURSIVE int(_)
int(s) ==
    IF s = "" THEN 0
    ELSE 10 * int(SubSeq(s, 1, Len(s) - 1)) + DigitValue[Char(s, Len(s))]

\* The decimal numeral of n, zero-padded to width w (as %02d, %04d).
RECURSIVE zfill(_, _)
zfill(n, w) ==
    IF w = 0 THEN ""
    ELSE zfill(n \div 10, w - 1) \o Char(DecimalDigits, (n % 10) + 1)

(***************************************************************************)
(* Python datetime.date: a date is [year, month, day]; arithmetic goes     *)
(* through the proleptic Gregorian ordinal (1 is 0001-01-01).              *)
(***************************************************************************)
date(y, m, d) == [year |-> y, month |-> m, day |-> d]

is_leap(y) == y % 4 = 0 /\ (y % 100 # 0 \/ y % 400 = 0)

days_in_month(y, m) ==
    IF m = 2 THEN (IF is_leap(y) THEN 29 ELSE 28)
    ELSE IF m \in {4, 6, 9, 11} THEN 30 ELSE 31

days_before_year(y) ==
    (y - 1) * 365 + ((y - 1) \div 4) - ((y - 1) \div 100) + ((y - 1) \div 400)

RECURSIVE days_before_month(_, _)
days_before_month(y, m) ==
    IF m = 1 THEN 0
    ELSE days_before_month(y, m - 1) + days_in_month(y, m - 1)

\* The check the date constructor makes; False is its ValueError.
valid_date(y, m, d) ==
    /\ 1 <= y /\ y <= 9999
    /\ 1 <= m /\ m <= 12
    /\ 1 <= d /\ d <= days_in_month(y, m)

toordinal(dt) ==
    days_before_year(dt.year) + days_before_month(dt.year, dt.month) + dt.day

\* Monday is 0, Sunday is 6.
weekday(dt) == (toordinal(dt) + 6) % 7

RECURSIVE month_of(_, _, _)
month_of(y, m, n) ==
    IF n < days_in_month(y, m) THEN date(y, m, n + 1)
    ELSE month_of(y, m + 1, n - days_in_month(y, m))

fromordinal(ordinal) ==
    LET n    == ordinal - 1
        n400 == n \div 146097
        r400 == n % 146097
        n100 == r400 \div 36524
        r100 == r400 % 36524
        n4   == r100 \div 1461
        r4   == r100 % 1461
        n1   == r4 \div 365
        r1   == r4 % 365
        y    == n400 * 400 + n100 * 100 + n4 * 4 + n1 + 1
    IN IF n1 = 4 \/ n100 = 4 THEN date(y - 1, 12, 31)
       ELSE month_of(y, 1, r1)

\* dt + timedelta(days=k)
plus_days(dt, k) == fromordinal(toordinal(dt) + k)

\* date.replace(year=y): the same month and day in year y, or ValueError.
replace_year(dt, y) ==
    IF valid_date(y, dt.month, dt.day)
    THEN [exc |-> "", msg |-> "", value |-> date(y, dt.month, dt.day)]
    ELSE [exc |-> "ValueError", msg |-> "day is out of range for month",
          value |-> dt]

\* Position of the first "." of s at or after i, 0 when there is none.
RECURSIVE DotFrom(_, _)
DotFrom(s, i) ==
    IF i > Len(s) THEN 0 ELSE IF Char(s, i) = "." THEN i ELSE DotFrom(s, i + 1)

FirstDot(s) == DotFrom(s, 1)

\* %d: 3[0-1] | [1-2]\d | 0[1-9] | [1-9] | " "[1-9]
match_d(f) ==
    IF Len(f) = 1 THEN isdigit(f) /\ int(f) >= 1
    ELSE IF Len(f) = 2 /\ Char(f, 1) = " " THEN isdigit(Tail(f)) /\ int(Tail(f)) >= 1
    ELSE Len(f) = 2 /\ isdigit(f) /\ int(f) >= 1 /\ int(f) <= 31

\* %m: 1[0-2] | 0[1-9] | [1-9]
match_m(f) ==
    /\ Len(f) \in {1, 2} /\ isdigit(f) /\ int(f) >= 1 /\ int(f) <= 12

\* %Y: \d\d\d\d
match_Y(f) == Len(f) = 4 /\ isdigit(f)

\* The date of the three fields of a "%d.%m.%Y" string, or ValueError.
strptime_fields(fd, fm, fY) ==
    IF match_d(fd) /\ match_m(fm) /\ match_Y(fY)
       /\ valid_date(int(fY), int(fm), int(lstrip(fd)))
    THEN [exc |-> "", value |-> date(int(fY), int(fm), int(lstrip(fd)))]
    ELSE [exc |-> "ValueError", value |-> date(0, 0, 0)]

\* rest is what follows the first "." of the string, j its own first ".".
strptime_rest(fd, rest, j) ==
    IF j = 0 THEN [exc |-> "ValueError", value |-> date(0, 0, 0)]
    ELSE strptime_fields(fd, SubSeq(rest, 1, j - 1), SubSeq(rest, j + 1, Len(rest)))

strptime_tail(fd, rest) == strptime_rest(fd, rest, FirstDot(rest))

strptime_split(s, i) ==
    IF i = 0 THEN [exc |-> "ValueError", value |-> date(0, 0, 0)]
    ELSE strptime_tail(SubSeq(s, 1, i - 1), SubSeq(s, i + 1, Len(s)))

\* datetime.strptime(s, "%d.%m.%Y").date(), or ValueError.
strptime_d_m_Y(s) == strptime_split(s, FirstDot(s))

\* strptime_d_m_Y of every birthday the model types, computed once.
ParsedBirthdays == [s \in BirthdayInputs \cup FewBirthdays |-> strptime_d_m_Y(s)]

strptime(s) ==
    IF s \in DOMAIN ParsedBirthdays THEN ParsedBirthdays[s] ELSE strptime_d_m_Y(s)

\* dt.strftime("%Y.%m.%d")
strftime(dt) ==
    zfill(dt.year, 4) \o "." \o zfill(dt.month, 2) \o "." \o zfill(dt.day, 2)

(***************************************************************************)
(* A record is [name, phones, birthday]: phones is the list of the Phone   *)
(* objects' values, birthday is <<>> for None and <<value>> otherwise.     *)
(* The registry's dict is the sequence of its records in insertion order;  *)
(* a record's key is its name (both programs insert under                  *)
(* record.name.value and never change a name).                             *)
(***************************************************************************)
None == <<>>

Returned(v) == [exc |-> "", msg |-> "", value |-> v]

Raised(cls, text, v) == [exc |-> cls, msg |-> text, value |-> v]

RemoveAt(seq, i) == SubSeq(seq, 1, i - 1) \o SubSeq(seq, i + 1, Len(seq))

\* Index of the first element equal to v, 0 when there is none.
FirstIndex(seq, v) ==
    IF \E i \in 1..Len(seq) : seq[i] = v
    THEN CHOOSE i \in 1..Len(seq) : seq[i] = v /\ \A j \in 1..(i - 1) : seq[j] # v
    ELSE 0

Keys(d) == {d[i].name : i \in 1..Len(d)}

KeyIndex(d, name) ==
    IF name \in Keys(d) THEN CHOOSE i \in 1..Len(d) : d[i].name = name ELSE 0

\* dict.get(name, None)
dict_get(d, name) == IF name \in Keys(d) THEN <<d[KeyIndex(d, name)]>> ELSE None

\* d[name] = record: a present key keeps its place, a new key goes last.
dict_set(d, name, record) ==
    IF name \in Keys(d) THEN [d EXCEPT ![KeyIndex(d, name)] = record]
    ELSE Append(d, record)

\* del d[name], for a present key.
dict_del(d, name) == RemoveAt(d, KeyIndex(d, name))

(***************************************************************************)
(* src/1.py: fields, Record, AddressBook.                                  *)
(***************************************************************************)
Phone_validate_1(value) == Len(value) = 10 /\ isdigit(value)

Phone_1(value) ==
    IF ~Phone_validate_1(value)
    THEN Raised("ValueError",
                "Invalid phone number format. Should start from 0 and be 10 digits",
                value)
    ELSE Returned(value)

Birthday_validate_1(value) == strptime(value).exc = ""

Birthday_1(value) ==
    IF ~Birthday_validate_1(value)
    THEN Raised("ValueError", "Invalid date format. Use DD.MM.YYYY", value)
    ELSE Returned(value)

Record_1(name) == [name |-> name, phones |-> <<>>, birthday |-> None]

\* p is what Phone(phone_number) gave.
append_phone(record, p) ==
    IF p.exc # "" THEN Raised(p.exc, p.msg, record)
    ELSE Returned([record EXCEPT !.phones = Append(@, p.value)])

add_phone_1(record, phone_number) == append_phone(record, Phone_1(phone_number))

\* The for loop over self.phones while self.phones.remove(phone) shrinks it:
\* the list iterator holds an index i, and removing the element at i moves
\* the next element into place i, which the iterator then steps over.
RECURSIVE remove_phone_loop_1(_, _, _)
remove_phone_loop_1(phones, phone_number, i) ==
    IF i > Len(phones) THEN phones
    ELSE IF phones[i] = phone_number
    THEN remove_phone_loop_1(RemoveAt(phones, i), phone_number, i + 1)
    ELSE remove_phone_loop_1(phones, phone_number, i + 1)

remove_phone_1(record, phone_number) ==
    Returned([record EXCEPT !.phones = remove_phone_loop_1(@, phone_number, 1)])

\* i is the place of the first phone whose value is old_phone, 0 for none.
edit_phone_at_1(record, i, new_phone) ==
    IF i > 0 THEN Returned([record EXCEPT !.phones[i] = new_phone])
    ELSE Raised("ValueError", "Phone number not found", record)

edit_phone_1(record, old_phone, new_phone) ==
    edit_phone_at_1(record, FirstIndex(record.phones, old_phone), new_phone)

\* b is what Birthday(new_birthday) gave.
set_birthday(record, b) ==
    IF b.exc # "" THEN Raised(b.exc, b.msg, record)
    ELSE Returned([record EXCEPT !.birthday = <<b.value>>])

add_birthday_1(record, new_birthday) == set_birthday(record, Birthday_1(new_birthday))

str_1(record) ==
    "Contact name: " \o record.name \o ", phones: " \o join("; ", record.phones)
    \o (IF record.birthday # None
        THEN ", birthday: " \o record.birthday[1] ELSE "")

add_record_1(d, record) == dict_set(d, record.name, record)

find_1(d, name) == dict_get(d, name)

delete_1(d, name) == IF name \in Keys(d) THEN dict_del(d, name) ELSE d

\* One entry of the list get_upcoming_birthdays returns.
UpcomingEntry(name, congratulation_date) ==
    [name |-> name, congratulation_date |-> congratulation_date]

\* first is birthday_date.replace(year=today.year); before today it moves
\* to the next year.
next_year_if_past(first, today) ==
    IF first.exc # "" THEN first
    ELSE IF toordinal(first.value) < toordinal(today)
    THEN replace_year(first.value, today.year + 1)
    ELSE first

birthday_this_year_1(birthday_date, today) ==
    next_year_if_past(replace_year(birthday_date, today.year), today)

\* A shift that leaves a Saturday where it is (weekday() > 5 for >= 5).
congratulation_date_sunday_only(birthday_this_year) ==
    IF weekday(birthday_this_year) > 5
    THEN plus_days(birthday_this_year, 7 - weekday(birthday_this_year))
    ELSE birthday_this_year

\* The date to congratulate on: a Saturday or Sunday moves to Monday.
congratulation_date_1(birthday_this_year) ==
    IF weekday(birthday_this_year) >= 5
    THEN plus_days(birthday_this_year, 7 - weekday(birthday_this_year))
    ELSE birthday_this_year

in_window_1(days_until_birthday) ==
    0 <= days_until_birthday /\ days_until_birthday <= 7

\* The body of the for loop over self.data.values(), from records[i] on;
\* an exception ends the call and the list built so far is lost.
RECURSIVE upcoming_loop_1(_, _, _, _)

\* rebased is what birthday_this_year_1 gave for records[i].
upcoming_rebased_1(records, i, today, upcoming_birthdays, rebased) ==
    IF rebased.exc # "" THEN Raised(rebased.exc, rebased.msg, <<>>)
    ELSE IF in_window_1(toordinal(rebased.value) - toordinal(today))
    THEN upcoming_loop_1(records, i + 1, today,
             Append(upcoming_birthdays,
                    UpcomingEntry(records[i].name,
                                  strftime(congratulation_date_1(rebased.value)))))
    ELSE upcoming_loop_1(records, i + 1, today, upcoming_birthdays)

\* parsed is what strptime gave for the birthday of records[i].
upcoming_parsed_1(records, i, today, upcoming_birthdays, parsed) ==
    IF parsed.exc # ""
    THEN Raised("ValueError", "time data does not match format", <<>>)
    ELSE upcoming_rebased_1(records, i, today, upcoming_birthdays,
                            birthday_this_year_1(parsed.value, today))

upcoming_loop_1(records, i, today, upcoming_birthdays) ==
    IF i > Len(records) THEN Returned(upcoming_birthdays)
    ELSE IF records[i].birthday = None
    THEN upcoming_loop_1(records, i + 1, today, upcoming_birthdays)
    ELSE upcoming_parsed_1(records, i, today, upcoming_birthdays,
                           strptime(records[i].birthday[1]))

get_upcoming_birthdays_1(d, today) == upcoming_loop_1(d, 1, today, <<>>)

(***************************************************************************)
(* The address-book file: absent, empty (zero bytes), truncated (a pickle  *)
(* cut short) or the pickle of a registry.                                 *)
(***************************************************************************)
File(kind, content) == [kind |-> kind, content |-> content]

\* open(filename, 'rb') followed by pickle.load(f)
pickle_load(f) ==
    CASE f.kind = "absent"    -> Raised("FileNotFoundError", "No such file or directory", <<>>)
      [] f.kind = "empty"     -> Raised("EOFError", "Ran out of input", <<>>)
      [] f.kind = "truncated" -> Raised("UnpicklingError", "pickle data was truncated", <<>>)
      [] OTHER                -> Returned(f.content)

\* open(filename, 'wb') followed by pickle.dump(obj, f)
pickle_dump(obj) == File("pickle", obj)

save_to_file_1(d) == pickle_dump(d)

\* r is what open and pickle.load gave.
except_1(r) ==
    IF r.exc \in {"FileNotFoundError", "EOFError"} THEN Returned(<<>>) ELSE r

load_from_file_1(f) == except_1(pickle_load(f))

(***************************************************************************)
(* src/1.py: the command handlers.  A handler returns the text it hands to *)
(* print and the registry it leaves: [exc, msg, printed, data].            *)
(***************************************************************************)
Handled(text, d) == [exc |-> "", msg |-> "", printed |-> <<text>>, data |-> d]

\* The decorator: what the wrapped function raised becomes the text returned.
input_error(exc, msg) ==
    CASE exc = "ValueError" -> msg
      [] exc = "KeyError"   -> "Contact " \o msg \o " not found."
      [] exc = "IndexError" -> "Invalid number of arguments."
      [] OTHER              -> "An error occurred: " \o msg

\* str(KeyError(name)) is repr(name)
KeyErrorText(name) == "'" \o name \o "'"

\* r is what the record's method gave; the record is stored under name.
updated_1(r, d, name, text) ==
    IF r.exc # "" THEN Handled(input_error(r.exc, r.msg), d)
    ELSE Handled(text, dict_set(d, name, r.value))

\* r is what add_phone gave for the new record, which add_record then stores.
added_1(r, d) ==
    IF r.exc # "" THEN Handled(input_error(r.exc, r.msg), d)
    ELSE Handled("Contact added.", add_record_1(d, r.value))

add_contact(args, d) ==
    IF Len(args) # 2
    THEN Handled(input_error("ValueError", "Give me name and phone please."), d)
    ELSE IF find_1(d, args[1]) # None
    THEN updated_1(add_phone_1(find_1(d, args[1])[1], args[2]), d, args[1],
                   "Phone added.")
    ELSE added_1(add_phone_1(Record_1(args[1]), args[2]), d)

change_contact(args, d) ==
    IF Len(args) # 3
    THEN Handled(input_error("ValueError",
                             "Give me name, old phone and new phone please."), d)
    ELSE IF find_1(d, args[1]) # None
    THEN updated_1(edit_phone_1(find_1(d, args[1])[1], args[2], args[3]), d,
                   args[1], "Phone updated.")
    ELSE Handled(input_error("KeyError", KeyErrorText(args[1])), d)

show_phone(args, d) ==
    IF Len(args) # 1
    THEN Handled(input_error("ValueError", "Enter user name"), d)
    ELSE LET name   == args[1]
             record == find_1(d, name)
         IN IF record # None THEN Handled(join("; ", record[1].phones), d)
            ELSE Handled(input_error("KeyError", KeyErrorText(name)), d)

show_all(d) == Handled(join("\n", [i \in 1..Len(d) |-> str_1(d[i])]), d)

add_birthday(args, d) ==
    IF Len(args) # 2
    THEN Handled(input_error("ValueError", "Give me name and birthday please."), d)
    ELSE IF find_1(d, args[1]) # None
    THEN updated_1(add_birthday_1(find_1(d, args[1])[1], args[2]), d, args[1],
                   "Birthday added.")
    ELSE Handled(input_error("KeyError", KeyErrorText(args[1])), d)

show_birthday(args, d) ==
    IF Len(args) # 1
    THEN Handled(input_error("ValueError", "Enter user name"), d)
    ELSE LET name   == args[1]
             record == find_1(d, name)
         IN IF record # None /\ record[1].birthday # None
            THEN Handled(name \o "'s birthday: " \o record[1].birthday[1], d)
            ELSE IF record # None
            THEN Handled(name \o " has no birthday set.", d)
            ELSE Handled(input_error("KeyError", KeyErrorText(name)), d)

\* upcoming is what book.get_upcoming_birthdays() gave.
birthdays_text(upcoming, d) ==
    IF upcoming.exc # "" THEN Handled(input_error(upcoming.exc, upcoming.msg), d)
    ELSE IF upcoming.value # <<>>
    THEN Handled(join("\n", [i \in 1..Len(upcoming.value) |->
                                upcoming.value[i].name \o ": "
                                \o upcoming.value[i].congratulation_date]), d)
    ELSE Handled("No upcoming birthdays in the next week.", d)

birthdays(d, today) == birthdays_text(get_upcoming_birthdays_1(d, today), d)

\* cmd, *args = re.findall(r'\S+', user_input); cmd = cmd.strip().lower()
unpack(words) ==
    IF words = <<>>
    THEN Raised("ValueError",
                "not enough values to unpack (expected at least 1, got 0)",
                <<"", <<>>>>)
    ELSE Returned(<<lower(strip(Head(words))), Tail(words)>>)

parse_input(user_input) == unpack(findall_words(user_input))

(***************************************************************************)
(* src/main.py: fields, Record, AddressBook.  The program's texts are      *)
(* Ukrainian; the model writes each in English.                            *)
(***************************************************************************)
Name_main(name) ==
    IF name = "" THEN Raised("ValueError", "Name cannot be empty", name)
    ELSE Returned(name)

Phone_main(phone) ==
    IF ~isdigit(phone) \/ Len(phone) # 10
    THEN Raised("ValueError", "Phone number must contain 10 digits.", phone)
    ELSE Returned(phone)

Birthday_main(value) ==
    IF strptime(value).exc # ""
    THEN Raised("ValueError", "Invalid date format. Use DD.MM.YYYY", value)
    ELSE Returned(value)

\* n and b are what Name(name) and Birthday(birthday) gave.
Record_fields_main(n, b, birthday) ==
    IF n.exc # "" THEN Raised(n.exc, n.msg, n.value)
    ELSE IF b.exc # "" THEN Raised(b.exc, b.msg, b.value)
    ELSE Returned([name     |-> n.value,
                   phones   |-> <<>>,
                   birthday |-> IF birthday # "" THEN <<b.value>> ELSE None])

Record_main(name, birthday) ==
    Record_fields_main(Name_main(name),
                       IF birthday # "" THEN Birthday_main(birthday)
                       ELSE Returned(""),
                       birthday)

add_phone_main(record, phone) == append_phone(record, Phone_main(phone))

\* i is the place of the first phone whose value is phone, 0 for none.
remove_phone_at_main(record, i) ==
    IF i > 0 THEN Returned([record EXCEPT !.phones = RemoveAt(@, i)])
    ELSE Raised("ValueError", "Phone not found.", record)

remove_phone_main(record, phone) ==
    remove_phone_at_main(record, FirstIndex(record.phones, phone))

\* i is the place of the first phone whose value is old_phone, 0 for none;
\* Phone(new_phone) is built once that phone is found, p is what it gave.
edit_phone_at_main(record, i, p) ==
    IF i = 0 THEN Raised("ValueError", "Old phone number not found.", record)
    ELSE IF p.exc # "" THEN Raised(p.exc, p.msg, record)
    ELSE Returned([record EXCEPT !.phones[i] = p.value])

edit_phone_main(record, old_phone, new_phone) ==
    edit_phone_at_main(record, FirstIndex(record.phones, old_phone),
                       Phone_main(new_phone))

str_main(record) ==
    record.name \o ": " \o join(", ", record.phones)
    \o (IF record.birthday # None
        THEN ", Birthday: " \o record.birthday[1] ELSE "")

\* add_record without its duplicate check.
add_record_overwriting(d, record) == Returned(dict_set(d, record.name, record))

add_record_main(d, record) ==
    IF record.name \in Keys(d)
    THEN Raised("ValueError", "A contact with this name already exists.", d)
    ELSE Returned(dict_set(d, record.name, record))

\* delete_record without its check that the name is there.
delete_record_unchecked(d, name) == Returned(delete_1(d, name))

delete_record_main(d, name) ==
    IF name \notin Keys(d) THEN Raised("ValueError", "Contact not found.", d)
    ELSE Returned(dict_del(d, name))

search_record_main(d, name) == dict_get(d, name)

book_str_main(d) == join("\n", [i \in 1..Len(d) |-> str_main(d[i])])

save_data(d) == pickle_dump(d)

\* r is what open and pickle.load gave.
except_main(r) == IF r.exc = "FileNotFoundError" THEN Returned(<<>>) ELSE r

load_data(f) == except_main(pickle_load(f))

(***************************************************************************)
(* src/main.py: one pass of the while loop of main, by command.  answers   *)
(* are the lines the user types at the prompts that follow the command.    *)
(***************************************************************************)
Error_main(msg, d) == Handled("Error: " \o msg, d)

\* How many prompts follow a command.
Prompts_main(command) ==
    CASE command = "name"                                      -> 3
      [] command \in {"add_phone", "remove_phone"}             -> 2
      [] command = "edit_phone"                                -> 3
      [] command = "delete"                                    -> 1
      [] OTHER                                                 -> 0

\* r is what the record's method gave; the record is stored under name.
updated_main(r, d, name, text) ==
    IF r.exc # "" THEN Error_main(r.msg, d)
    ELSE Handled(text, dict_set(d, name, r.value))

\* added is what book.add_record(record) gave.
name_added_main(added, name, d) ==
    IF added.exc # "" THEN Error_main(added.msg, d)
    ELSE Handled("Contact " \o name \o " added.", added.value)

\* record is what Record(name, birthday) and record.add_phone(phone) gave.
name_record_main(record, name, d) ==
    IF record.exc # "" THEN Error_main(record.msg, d)
    ELSE name_added_main(add_record_main(d, record.value), name, d)

\* record is what Record(name, birthday) gave.
name_phone_main(record, name, phone, d) ==
    IF record.exc # "" THEN Error_main(record.msg, d)
    ELSE IF phone # ""
    THEN name_record_main(add_phone_main(record.value, phone), name, d)
    ELSE name_record_main(record, name, d)

name_command_main(answers, d) ==
    name_phone_main(Record_main(strip(answers[1]), strip(answers[3])),
                    strip(answers[1]), strip(answers[2]), d)

\* record is what book.search_record(name) gave.
add_phone_found_main(record, name, phone, d) ==
    IF record = None THEN Handled("Contact not found.", d)
    ELSE updated_main(add_phone_main(record[1], phone), d, name,
                      "Phone " \o phone \o " added to contact " \o name \o ".")

add_phone_command_main(answers, d) ==
    add_phone_found_main(search_record_main(d, strip(answers[1])),
                         strip(answers[1]), strip(answers[2]), d)

edit_phone_found_main(record, name, old_phone, new_phone, d) ==
    IF record = None THEN Handled("Contact not found.", d)
    ELSE updated_main(edit_phone_main(record[1], old_phone, new_phone), d, name,
                      "Phone number changed to " \o new_phone \o ".")

edit_phone_command_main(answers, d) ==
    edit_phone_found_main(search_record_main(d, strip(answers[1])),
                          strip(answers[1]), strip(answers[2]),
                          strip(answers[3]), d)

remove_phone_found_main(record, name, phone, d) ==
    IF record = None THEN Handled("Contact not found.", d)
    ELSE updated_main(remove_phone_main(record[1], phone), d, name,
                      "Phone " \o phone \o " removed.")

remove_phone_command_main(answers, d) ==
    remove_phone_found_main(search_record_main(d, strip(answers[1])),
                            strip(answers[1]), strip(answers[2]), d)

\* r is what book.delete_record(name) gave.
delete_done_main(r, name, d) ==
    IF r.exc # "" THEN Error_main(r.msg, d)
    ELSE Handled("Contact " \o name \o " deleted.", r.value)

delete_command_main(answers, d) ==
    delete_done_main(delete_record_main(d, strip(answers[1])),
                     strip(answers[1]), d)

show_all_command_main(d) ==
    [exc |-> "", msg |-> "", printed |-> <<"Address book:", book_str_main(d)>>,
     data |-> d]

(***************************************************************************)
(* The inputs the model tries.                                             *)
(***************************************************************************)
Names == {"ann", "bob"}

\* Two well-formed numbers and one that is not.
PhoneInputs == {"0501112233", "0672223344", "12345"}

\* The first "today" of each run of TodaySpan + 1 days: June 2024 (Saturday
\* 8th, so the runs meet a week-end), late February of a leap year and of a
\* common year, the day before a leap day, the end of a year.
AnchorDates ==
    {date(2024, 6, 8), date(2024, 2, 21), date(2023, 2, 21),
     date(2024, 2, 28), date(2024, 12, 29)}

Todays == {plus_days(a, k) : a \in AnchorDates, k \in 0..TodaySpan}

NoDate == date(0, 0, 0)

\* Lines typed at "Enter a command: " of src/1.py under Spec.
Lines_1 ==
    {"", "   ", "hello", "HELLO", "foo", "add", "all", "phone", "birthdays",
     "close", "exit", " Exit ", "add-birthday ann", "show-birthday ann"}
    \cup {"add " \o n \o " " \o p : n \in Names, p \in PhoneInputs}
    \cup {"change " \o n \o " " \o o \o " " \o p :
             n \in Names, o \in PhoneInputs, p \in PhoneInputs}
    \cup {"change " \o n : n \in Names}
    \cup {"phone " \o n : n \in Names}

\* Lines typed at "Enter a command: " of src/1.py under SpecBirthdays, the
\* line birthdays apart.
BirthdayLines_1 ==
    {"", "all", "exit"}
    \cup {"add " \o n \o " 0501112233" : n \in Names}
    \cup {"add-birthday ann " \o b : b \in BirthdayInputs}
    \cup {"add-birthday bob " \o b : b \in {"10.06.1985", "29.02.2000"}}
    \cup {"show-birthday " \o n : n \in Names}

\* Commands typed at the menu of src/main.py, with the answers to its prompts.
Inputs_main ==
    {<<c, <<>>>> : c \in {"show_all", "exit", " Exit ", "", "foo"}}
    \cup {<<"name", <<n, p, "">>>> : n \in Names, p \in PhoneInputs \cup {""}}
    \cup {<<"name", <<n, "", b>>>> : n \in Names, b \in FewBirthdays}
    \cup {<<"name", <<"", "0501112233", "">>>>,
           <<"name", <<" ann ", " 0672223344 ", " 15.06.1990 ">>>>}
    \cup {<<"add_phone", <<n, p>>>> : n \in Names, p \in PhoneInputs}
    \cup {<<"edit_phone", <<n, o, p>>>> :
             n \in Names, o \in PhoneInputs, p \in PhoneInputs}
    \cup {<<"remove_phone", <<n, p>>>> : n \in Names, p \in PhoneInputs}
    \cup {<<"DELETE", <<n>>>> : n \in Names}

\* Lines typed at "Enter a command: " of src/1.py under SpecRegistry.
RegistryLines_1 ==
    {"all", "exit"}
    \cup {"add " \o n \o " " \o p : n \in Names, p \in {"0501112233", "12345"}}
    \cup {"add-birthday " \o n \o " 15.06.1990" : n \in Names}

\* Commands typed at the menu of src/main.py under SpecRegistry.
RegistryInputs_main ==
    {<<"show_all", <<>>>>, <<"exit", <<>>>>}
    \cup {<<"name", <<n, p, b>>>> :
             n \in Names, p \in {"", "0501112233"}, b \in {"", "15.06.1990"}}
    \cup {<<"name", <<"ann", "12345", "">>>>, <<"name", <<"bob", "", "31.02.2024">>>>}
    \cup {<<"add_phone", <<n, "0501112233">>>> : n \in Names}
    \cup {<<"delete", <<n>>>> : n \in Names}

\* The files the program may find when it starts.
InitialFiles ==
    {File("absent", <<>>), File("empty", <<>>), File("truncated", <<>>),
     File("pickle", <<[name |-> "ann", phones |-> <<"0501112233">>,
                       birthday |-> None]>>)}

\* input(...).strip().lower() of every command the model types at the menu,
\* computed once.
ParsedCommands ==
    [c \in {i[1] : i \in Inputs_main \cup RegistryInputs_main} |-> lower(strip(c))]

\* parse_input of every line the model types, computed once.
ParsedLines ==
    [l \in Lines_1 \cup BirthdayLines_1 \cup RegistryLines_1 |-> parse_input(l)]

RECURSIVE TotalPhones(_)
TotalPhones(d) ==
    IF d = <<>> THEN 0 ELSE Len(Head(d).phones) + TotalPhones(Tail(d))

(***************************************************************************)
(* The state machine.  variant is the program that runs; pc is "start"     *)
(* before the file is loaded, "loop" while commands are read, "done" after *)
(* exit and "crashed" when an exception left main.  event is what the last *)
(* step did: the command or method, its arguments, the exception that      *)
(* came out of it, the lines printed, and for the birthday listing the     *)
(* date taken as today and the list returned.                              *)
(***************************************************************************)
Event(op, args, exc, msg, printed, today, upcoming) ==
    [op |-> op, args |-> args, exc |-> exc, msg |-> msg, printed |-> printed,
     today |-> today, upcoming |-> upcoming]

Init ==
    /\ variant \in {"1.py", "main.py"}
    /\ pc = "start"
    /\ file \in InitialFiles
    /\ data = <<>>
    /\ event = Event("", <<>>, "", "", <<>>, NoDate, <<>>)

\* r is what loading the file gave: the registry, or the exception that
\* leaves main before its loop.
Loaded(op, r, welcome) ==
    /\ pc' = (IF r.exc # "" THEN "crashed" ELSE "loop")
    /\ data' = (IF r.exc # "" THEN data ELSE r.value)
    /\ event' = Event(op, <<>>, r.exc, r.msg,
                      IF r.exc # "" THEN <<>> ELSE welcome, NoDate, <<>>)
    /\ UNCHANGED <<variant, file>>

\* src/1.py main: book = AddressBook(); book.load_from_file(filename)
Load_1 ==
    /\ variant = "1.py" /\ pc = "start"
    /\ Loaded("load_from_file", load_from_file_1(file),
              <<"Welcome to the assistant bot!">>)

\* src/main.py main: book = load_data()
Load_main ==
    /\ variant = "main.py" /\ pc = "start"
    /\ Loaded("load_data", load_data(file), <<>>)

\* The if/elif chain of the while loop of src/1.py, close and exit apart.
dispatch_1(command, args, d, today) ==
    CASE command = "hello"         -> Handled("How can I help you?", d)
      [] command = "add"           -> add_contact(args, d)
      [] command = "change"        -> change_contact(args, d)
      [] command = "phone"         -> show_phone(args, d)
      [] command = "all"           -> show_all(d)
      [] command = "add-birthday"  -> add_birthday(args, d)
      [] command = "show-birthday" -> show_birthday(args, d)
      [] command = "birthdays"     -> birthdays(d, today)
      [] OTHER                     -> Handled("Invalid command.", d)

\* A command other than close and exit: h is what its handler gave.
Handle(command, args, h, today) ==
    /\ data' = h.data
    /\ pc' = "loop"
    /\ event' = Event(command, args, "", "", h.printed, today, <<>>)
    /\ UNCHANGED file

\* close, exit: the registry is saved and the loop left.
Leave(command, args, saved, bye) ==
    /\ file' = saved
    /\ pc' = "done"
    /\ event' = Event(command, args, "", "", <<bye>>, NoDate, <<>>)
    /\ UNCHANGED data

\* parsed is what parse_input(user_input) gave; its ValueError leaves main.
Parsed_1(user_input, parsed, today) ==
    IF parsed.exc # ""
    THEN /\ pc' = "crashed"
         /\ event' = Event("parse_input", <<user_input>>, parsed.exc, parsed.msg,
                           <<>>, NoDate, <<>>)
         /\ UNCHANGED <<data, file>>
    ELSE IF parsed.value[1] \in {"close", "exit"}
    THEN Leave(parsed.value[1], parsed.value[2], save_to_file_1(data), "Good bye!")
    ELSE Handle(parsed.value[1], parsed.value[2],
                dispatch_1(parsed.value[1], parsed.value[2], data, today),
                IF parsed.value[1] = "birthdays" THEN today ELSE NoDate)

\* One pass of the while loop of src/1.py; today is what datetime.now()
\* gives when the command is birthdays.
MainLoop_1(user_input, today) ==
    /\ variant = "1.py" /\ pc = "loop"
    /\ Parsed_1(user_input, ParsedLines[user_input], today)
    /\ TotalPhones(data') <= MaxPhones
    /\ UNCHANGED variant

\* The if/elif chain of the while loop of src/main.py, exit apart.
dispatch_main(command, answers, d) ==
    CASE command = "name"         -> name_command_main(answers, d)
      [] command = "add_phone"    -> add_phone_command_main(answers, d)
      [] command = "edit_phone"   -> edit_phone_command_main(answers, d)
      [] command = "remove_phone" -> remove_phone_command_main(answers, d)
      [] command = "delete"       -> delete_command_main(answers, d)
      [] command = "show_all"     -> show_all_command_main(d)
      [] OTHER -> Handled("Unknown command. Try again.", d)

\* command is input(...).strip().lower().
Command_main(command, answers) ==
    /\ Len(answers) = Prompts_main(command)
    /\ IF command = "exit"
       THEN Leave(command, answers, save_data(data), "Goodbye!")
       ELSE Handle(command, [i \in 1..Len(answers) |-> strip(answers[i])],
                   dispatch_main(command, answers, data), NoDate)

\* One pass of the while loop of src/main.py.
MainLoop_main(command_input, answers) ==
    /\ variant = "main.py" /\ pc = "loop"
    /\ Command_main(ParsedCommands[command_input], answers)
    /\ TotalPhones(data') <= MaxPhones
    /\ UNCHANGED variant

(***************************************************************************)
(* Methods of src/1.py that none of its commands calls, called as a client *)
(* of the classes calls them on the live registry.                         *)
(***************************************************************************)
\* r is what the method gave for the record stored under name.
Called(op, args, name, r) ==
    /\ data' = dict_set(data, name, r.value)
    /\ event' = Event(op, args, r.exc, r.msg, <<>>, NoDate, <<>>)
    /\ UNCHANGED <<variant, pc, file>>

\* book.find(name).remove_phone(phone_number)
Call_remove_phone_1(name, phone_number) ==
    /\ variant = "1.py" /\ pc = "loop"
    /\ find_1(data, name) # None
    /\ Called("Record.remove_phone", <<name, phone_number>>, name,
              remove_phone_1(find_1(data, name)[1], phone_number))

\* book.delete(name)
Call_delete_1(name) ==
    /\ variant = "1.py" /\ pc = "loop"
    /\ data' = delete_1(data, name)
    /\ event' = Event("AddressBook.delete", <<name>>, "", "", <<>>, NoDate, <<>>)
    /\ UNCHANGED <<variant, pc, file>>

\* book.add_record(Record(name))
Call_add_record_1(name) ==
    /\ variant = "1.py" /\ pc = "loop"
    /\ data' = add_record_1(data, Record_1(name))
    /\ event' = Event("AddressBook.add_record", <<name>>, "", "", <<>>, NoDate, <<>>)
    /\ UNCHANGED <<variant, pc, file>>

\* r is what get_upcoming_birthdays gave.
Listed(today, r) ==
    /\ event' = Event("AddressBook.get_upcoming_birthdays", <<>>, r.exc, r.msg, <<>>,
                      today, r.value)
    /\ UNCHANGED <<variant, pc, file, data>>

\* book.get_upcoming_birthdays()
Call_get_upcoming_birthdays_1(today) ==
    /\ variant = "1.py" /\ pc = "loop"
    /\ Listed(today, get_upcoming_birthdays_1(data, today))

Next ==
    \/ Load_1
    \/ Load_main
    \/ \E l \in Lines_1 : MainLoop_1(l, date(2024, 6, 10))
    \/ \E i \in Inputs_main : MainLoop_main(i[1], i[2])
    \/ \E n \in Names, p \in PhoneInputs : Call_remove_phone_1(n, p)
    \/ \E n \in Names : Call_delete_1(n)
    \/ \E n \in Names : Call_add_record_1(n)

Spec == Init /\ [][Next]_vars

\* The birthday listing of src/1.py, from an absent file.
InitBirthdays ==
    /\ variant = "1.py"
    /\ pc = "start"
    /\ file = File("absent", <<>>)
    /\ data = <<>>
    /\ event = Event("", <<>>, "", "", <<>>, NoDate, <<>>)

NextBirthdays ==
    \/ Load_1
    \/ \E l \in BirthdayLines_1 : MainLoop_1(l, NoDate)
    \/ \E t \in AnchorDates : MainLoop_1("birthdays", t)
    \/ \E t \in Todays : Call_get_upcoming_birthdays_1(t)

SpecBirthdays == InitBirthdays /\ [][NextBirthdays]_vars

\* Adding and deleting records, in both programs, from an absent file.
InitRegistry ==
    /\ variant \in {"1.py", "main.py"}
    /\ pc = "start"
    /\ file = File("absent", <<>>)
    /\ data = <<>>
    /\ event = Event("", <<>>, "", "", <<>>, NoDate, <<>>)

NextRegistry ==
    \/ Load_1
    \/ Load_main
    \/ \E l \in RegistryLines_1 : MainLoop_1(l, NoDate)
    \/ \E i \in RegistryInputs_main : MainLoop_main(i[1], i[2])
    \/ \E n \in Names : Call_delete_1(n)
    \/ \E n \in Names : Call_add_record_1(n)

SpecRegistry == InitRegistry /\ [][NextRegistry]_vars

(***************************************************************************)
(* What the claims speak of.                                               *)
(***************************************************************************)
Has(d, name) == name \in Keys(d)

Rec(d, name) == d[KeyIndex(d, name)]

TenDecimalDigits(p) ==
    Len(p) = 10 /\ \A k \in 1..Len(p) : Char(p, k) \in DigitChars

\* seq without its first element equal to v (seq itself when there is none).
WithoutFirst(seq, v) ==
    IF FirstIndex(seq, v) = 0 THEN seq
    ELSE [k \in 1..(Len(seq) - 1) |->
             IF k < FirstIndex(seq, v) THEN seq[k] ELSE seq[k + 1]]

\* d without the record of name, the others in their order.
WithoutRecord(d, name) ==
    IF ~Has(d, name) THEN d
    ELSE [k \in 1..(Len(d) - 1) |-> IF k < KeyIndex(d, name) THEN d[k] ELSE d[k + 1]]

\* Every record other than name's is the same in d and e, at the same place.
OthersSame(d, e, name) ==
    /\ Len(d) = Len(e)
    /\ \A k \in 1..Len(d) : d[k].name # name => e[k] = d[k]

NotFoundTexts ==
    {<<"Phone number not found">>, <<"Error: Old phone number not found.">>}

InvalidPhoneTexts ==
    {<<"Invalid phone number format. Should start from 0 and be 10 digits">>,
     <<"Error: Phone number must contain 10 digits.">>}

\* The step just taken edited a phone of a record of the registry: change
\* of src/1.py, edit_phone of src/main.py.
IsEditStep ==
    /\ \/ variant = "1.py" /\ event'.op = "change"
       \/ variant = "main.py" /\ event'.op = "edit_phone"
    /\ Len(event'.args) = 3
    /\ Has(data, event'.args[1])

\* The step just taken removed a phone from a record of the registry.
IsRemoveStep ==
    /\ \/ variant = "1.py" /\ event'.op = "Record.remove_phone"
       \/ variant = "main.py" /\ event'.op = "remove_phone"
    /\ Has(data, event'.args[1])

\* The step just taken deleted a name from the registry.
IsDeleteStep ==
    \/ variant = "1.py" /\ event'.op = "AddressBook.delete"
    \/ variant = "main.py" /\ event'.op = "delete"

\* The step just taken handed the registry a record to add: add_record of
\* src/1.py called with a new Record, the name command of src/main.py with
\* answers that make a record.
IsAddStep ==
    \/ variant = "1.py" /\ event'.op = "AddressBook.add_record"
    \/ /\ variant = "main.py" /\ event'.op = "name"
       /\ Record_main(event'.args[1], event'.args[3]).exc = ""
       /\ event'.args[2] # "" => Phone_main(event'.args[2]).exc = ""

IsLoadEvent == event.op \in {"load_from_file", "load_data"}

IsListing == event.op = "AddressBook.get_upcoming_birthdays"

ListedNames == {event.upcoming[k].name : k \in 1..Len(event.upcoming)}

\* The occurrence of the birthday's day and month in year y, when there is one.
HasOccurrence(b, y) == valid_date(y, b.month, b.day)

\* Days from today to the next occurrence of the birthday's day and month,
\* this year's when it is not before today and next year's otherwise; -1 when
\* that year has no such day.
DaysToNext(b, today) ==
    IF HasOccurrence(b, today.year)
       /\ toordinal(date(today.year, b.month, b.day)) >= toordinal(today)
    THEN toordinal(date(today.year, b.month, b.day)) - toordinal(today)
    ELSE IF HasOccurrence(b, today.year + 1)
    THEN toordinal(date(today.year + 1, b.month, b.day)) - toordinal(today)
    ELSE -1

BirthdayOf(record) == strptime(record.birthday[1]).value

\* C1: every phone stored in every record of the registry is a string of
\* exactly 10 decimal digits, whatever operations and commands ran.
C1_StoredPhonesAreTenDigits ==
    \A i \in 1..Len(data) : \A j \in 1..Len(data[i].phones) :
        TenDecimalDigits(data[i].phones[j])

\* C2: every line typed at the command loop is handled: something is
\* printed and the loop reads on, or the command was close or exit and the
\* session ends; no line makes the loop end with an exception.
C2_EveryLineIsHandled ==
    [][(pc = "loop" /\ event'.op \notin {"Record.remove_phone", "AddressBook.delete",
                                        "AddressBook.add_record",
                                        "AddressBook.get_upcoming_birthdays"})
       => \/ pc' = "loop" /\ event'.printed # <<>>
          \/ pc' = "done" /\ event'.op \in {"close", "exit"}]_vars

C4_AddNeverReplaces ==
    [][IsAddStep =>
         IF Has(data, event'.args[1])
         THEN /\ data' = data
              /\ \/ event'.exc # ""
                 \/ event'.printed = <<"Error: A contact with this name already exists.">>
         ELSE /\ Len(data') = Len(data) + 1
              /\ SubSeq(data', 1, Len(data)) = data
              /\ data'[Len(data')].name = event'.args[1]]_vars

\* C4, amended: add of a record whose name is absent inserts it under its
\* name.  When the name is a key, add_record of src/main.py fails with the
\* duplicate-name error and leaves the existing record unchanged, while
\* add_record of src/1.py returns without an error and puts the new record
\* in the place of the existing one; the add command of src/1.py never calls
\* add_record for a present name: it appends the phone to the existing
\* record, whose earlier phones and birthday stay.
C4_AddByVariant ==
    [][/\ IsAddStep =>
            IF Has(data, event'.args[1])
            THEN /\ variant = "main.py" =>
                      /\ data' = data
                      /\ event'.printed =
                            <<"Error: A contact with this name already exists.">>
                 /\ variant = "1.py" =>
                      /\ event'.exc = ""
                      /\ OthersSame(data, data', event'.args[1])
                      /\ Rec(data', event'.args[1]) = Record_1(event'.args[1])
            ELSE /\ Len(data') = Len(data) + 1
                 /\ SubSeq(data', 1, Len(data)) = data
                 /\ data'[Len(data')].name = event'.args[1]
       /\ (/\ variant = "1.py" /\ event'.op = "add" /\ Len(event'.args) = 2
           /\ Has(data, event'.args[1])) =>
            /\ OthersSame(data, data', event'.args[1])
            /\ Rec(data', event'.args[1]).birthday = Rec(data, event'.args[1]).birthday
            /\ Rec(data', event'.args[1]).phones \in
                  {Rec(data, event'.args[1]).phones,
                   Append(Rec(data, event'.args[1]).phones, event'.args[2])}]_vars

\* C4 witness: the menu refused a second record named ann, and the record
\* that was there still has its phone.
C4_Witness ==
    /\ variant = "main.py" /\ event.op = "name" /\ event.args[1] = "ann"
    /\ event.printed = <<"Error: A contact with this name already exists.">>
    /\ Has(data, "ann")
    /\ Rec(data, "ann").phones # <<>>

\* C5: remove_phone(v) on a record that holds v removes exactly one phone,
\* the first equal to v, and leaves every other phone, later ones equal to
\* v too, in place and in order; on a record without v it leaves the list
\* unchanged (and fails with a not-found error, which is not asked here of
\* src/1.py, whose remove_phone is written to return silently).
C5_RemovesExactlyTheFirst ==
    [][IsRemoveStep =>
         /\ Rec(data', event'.args[1]).phones =
               WithoutFirst(Rec(data, event'.args[1]).phones, event'.args[2])
         /\ OthersSame(data, data', event'.args[1])
         /\ (/\ variant = "main.py"
             /\ FirstIndex(Rec(data, event'.args[1]).phones, event'.args[2]) = 0)
            => event'.printed = <<"Error: Phone not found.">>]_vars

\* C6: edit_phone(old, new) puts new in the place of the first phone equal
\* to old only when new is 10 digits, and changes nothing else; it fails
\* with a not-found error when old is absent and with a validation error
\* when new is not 10 digits, and then the phone list is unchanged.
C6_EditValidatesNew ==
    [][IsEditStep =>
         LET name   == event'.args[1]
             old    == event'.args[2]
             new    == event'.args[3]
             phones == Rec(data, name).phones
             i      == FirstIndex(phones, old)
         IN IF i = 0
            THEN /\ data' = data
                 /\ event'.printed \in
                       NotFoundTexts \cup (IF TenDecimalDigits(new) THEN {}
                                           ELSE InvalidPhoneTexts)
            ELSE IF ~TenDecimalDigits(new)
            THEN data' = data /\ event'.printed \in InvalidPhoneTexts
            ELSE /\ Rec(data', name).phones = [phones EXCEPT ![i] = new]
                 /\ Rec(data', name).birthday = Rec(data, name).birthday
                 /\ OthersSame(data, data', name)]_vars

\* C7: get_upcoming_birthdays lists a record exactly when it has a birthday
\* whose next occurrence, this year's or else next year's, is 0 to 7 days
\* after today.
C7_ListedIffWithinAWeek ==
    IsListing =>
        \A i \in 1..Len(data) :
            (data[i].name \in ListedNames)
            <=> /\ data[i].birthday # None
                /\ DaysToNext(BirthdayOf(data[i]), event.today) \in 0..7

\* C8: each date get_upcoming_birthdays gives is the birthday's occurrence
\* when that is Monday to Friday, the occurrence plus 2 days when it is a
\* Saturday and plus 1 day when it is a Sunday; so it is a Monday to Friday
\* at most 9 days after today and never before today.
C8_WeekendMovesToMonday ==
    IsListing =>
        \A k \in 1..Len(event.upcoming) :
            LET e   == event.upcoming[k]
                b   == BirthdayOf(Rec(data, e.name))
                occ == plus_days(event.today, DaysToNext(b, event.today))
                wd  == weekday(occ)
            IN /\ Has(data, e.name)
               /\ occ.month = b.month /\ occ.day = b.day
               /\ e.congratulation_date =
                     strftime(IF wd <= 4 THEN occ
                              ELSE IF wd = 5 THEN plus_days(occ, 2)
                              ELSE plus_days(occ, 1))
               /\ \E n \in 0..9 :
                     /\ e.congratulation_date = strftime(plus_days(event.today, n))
                     /\ weekday(plus_days(event.today, n)) <= 4

\* C8 witness: a listed birthday falls on a Saturday and its date is the
\* Monday two days later.
C8_Witness ==
    /\ IsListing
    /\ \E k \in 1..Len(event.upcoming) :
          LET e   == event.upcoming[k]
              b   == BirthdayOf(Rec(data, e.name))
              occ == plus_days(event.today, DaysToNext(b, event.today))
          IN /\ weekday(occ) = 5
             /\ e.congratulation_date = strftime(plus_days(occ, 2))

\* C9: when the file is absent, empty or truncated at startup, load gives
\* an empty registry and the command loop starts.
C9_ReadFailureStartsEmpty ==
    (IsLoadEvent /\ file.kind \in {"absent", "empty", "truncated"})
    => (pc = "loop" /\ data = <<>>)

\* C10: when every stored birthday passed Birthday validation,
\* get_upcoming_birthdays returns a list: it raises nothing.
C10_ListingNeverRaises ==
    (/\ IsListing
     /\ \A i \in 1..Len(data) :
           data[i].birthday # None => Birthday_validate_1(data[i].birthday[1]))
    => event.exc = ""

====
